---- MODULE Spec2Model ----
(***************************************************************************)
(* Batter dashboard (batter_dashboard.py): a Streamlit script.  The        *)
(* delivery table is loaded once; every change of a sidebar widget reruns  *)
(* the whole script: filter -> metrics -> wagon wheel -> dismissal pie ->  *)
(* catch map -> beehive.                                                   *)
(*                                                                         *)
(* Representation.  A table cell that may be missing is a sequence of      *)
(* length 0 (NaN) or 1 (the value).  A DataFrame derived from `data` is    *)
(* the sequence of the index labels of its rows, in order; the row values  *)
(* are data[i].  The text of the Extra column is a sequence of characters  *)
(* so that the substring match is computed.  Rounded metrics are integers  *)
(* in hundredths (1000 is 10.0).  first_pass and reran are history         *)
(* variables: what the first run showed, and whether a rerun has happened. *)
(***************************************************************************)
EXTENDS Integers, Sequences, FiniteSets, TLC

VARIABLES data, assets,
          selected_teams, selected_batters, selected_bowling, selected_runs,
          filtered, total_runs, balls_faced, dismissals_count,
          batting_average, strike_rate, boundary_percentage,
          wagon, dismissals, caught, beehive_data, charts, exception,
          first_pass, reran

vars == <<data, assets,
          selected_teams, selected_batters, selected_bowling, selected_runs,
          filtered, total_runs, balls_faced, dismissals_count,
          batting_average, strike_rate, boundary_percentage,
          wagon, dismissals, caught, beehive_data, charts, exception,
          first_pass, reran>>

\* ------------------------------------------------------------------ bounds

\* Most rows of the sample table a loaded dataset holds.
MaxRows == 2

\* The run values 1..MaxRunToggle can be ticked and unticked one at a time.
MaxRunToggle == 1

\* ------------------------------------------------------------- cells, text

NaN == <<>>

Cell(v) == <<v>>

notna(c) == c # NaN

\* Series.isin(values): a missing cell is in no selection.
isin(c, values) == notna(c) /\ c[1] \in values

Min(a, b) == IF a < b THEN a ELSE b

UpperToLower ==
  "W" :> "w" @@ "I" :> "i" @@ "D" :> "d" @@ "E" :> "e" @@ "N" :> "n" @@
  "O" :> "o" @@ "B" :> "b" @@ "A" :> "a" @@ "L" :> "l" @@ "S" :> "s"

lower(ch) == IF ch \in DOMAIN UpperToLower THEN UpperToLower[ch] ELSE ch

\* Mutant: the match is case-sensitive.
casefoldNone(s) == s

casefold(s) == [k \in 1..Len(s) |-> lower(s[k])]

\* astype(str): a missing cell becomes the text "nan".
astype_str(c) == IF notna(c) THEN c[1] ELSE <<"n", "a", "n">>

\* str.contains(pat, case=False): pat occurs somewhere in s, letter case ignored.
str_contains(s, pat) ==
  LET ls == casefold(s)
      lp == casefold(pat)
  IN \E k \in 1..(Len(ls) - Len(lp) + 1) : SubSeq(ls, k, k + Len(lp) - 1) = lp

WidePattern == <<"W", "i", "d", "e">>

\* ---------------------------------------------------------------- load_data

bowling_type_mapping ==
  "LLB" :> "Spin" @@ "LOB" :> "Spin" @@ "RLB" :> "Spin" @@ "ROB" :> "Spin" @@
  "LF" :> "Pace" @@ "LFM" :> "Pace" @@ "LM" :> "Pace" @@
  "RF" :> "Pace" @@ "RFM" :> "Pace" @@ "RM" :> "Pace"

\* Mutant: a code the dict lacks falls back to Pace.
map_bowling_type_default(c) ==
  IF notna(c) /\ c[1] \in DOMAIN bowling_type_mapping
  THEN Cell(bowling_type_mapping[c[1]])
  ELSE Cell("Pace")

\* Series.map(dict): a missing cell or a key the dict lacks gives NaN.
map_bowling_type(c) ==
  IF notna(c) /\ c[1] \in DOMAIN bowling_type_mapping
  THEN Cell(bowling_type_mapping[c[1]])
  ELSE NaN

load_data(csv) ==
  [i \in 1..Len(csv) |->
     [BattingTeam   |-> csv[i].BattingTeam,
      Batter        |-> csv[i].Batter,
      BowlerType    |-> csv[i].BowlerType,
      Runs          |-> csv[i].Runs,
      Extra         |-> csv[i].Extra,
      Wicket        |-> csv[i].Wicket,
      FieldX        |-> csv[i].FieldX,
      FieldY        |-> csv[i].FieldY,
      ArrivalLine   |-> csv[i].ArrivalLine,
      ArrivalHeight |-> csv[i].ArrivalHeight,
      BowlingType   |-> map_bowling_type(csv[i].BowlerType)]]

\* ------------------------------------------------------------ sample table

CsvRow(team, batter, style, runs, extra, wicket, fx, fy, line, height) ==
  [BattingTeam |-> team, Batter |-> batter, BowlerType |-> style, Runs |-> runs,
   Extra |-> extra, Wicket |-> wicket, FieldX |-> fx, FieldY |-> fy,
   ArrivalLine |-> line, ArrivalHeight |-> height]

Wide   == Cell(<<"W", "i", "d", "e">>)
wides  == Cell(<<"5", " ", "w", "i", "d", "e", "s">>)
NoBall == Cell(<<"N", "o", " ", "B", "a", "l", "l">>)

\* Rows of MB50_25.csv that between them show every kind of cell the script
\* tests for.  Rows 1..3 are the three records of the end-to-end scenario.
SampleCsv == <<
  CsvRow(Cell("T1"), Cell("B1"), Cell("RF"),  4, NaN, NaN,
         Cell(200), Cell(150), NaN, NaN),
  CsvRow(Cell("T1"), Cell("B1"), Cell("ROB"), 6, NaN, NaN,
         NaN, NaN, Cell(10), Cell(90)),
  CsvRow(Cell("T1"), Cell("B1"), Cell("RF"),  0, NaN, Cell("Caught"),
         Cell(100), Cell(200), NaN, NaN),
  CsvRow(Cell("T2"), Cell("B2"), Cell("XX"),  1, Wide, NaN,
         NaN, NaN, NaN, NaN),
  CsvRow(Cell("T2"), Cell("B2"), Cell("RF"),  1, wides, NaN,
         Cell(150), Cell(100), Cell(-20), Cell(50)),
  CsvRow(NaN,        Cell("B2"), Cell("ROB"), 4, NoBall, NaN,
         NaN, NaN, Cell(30), Cell(120)),
  CsvRow(Cell("T1"), NaN,        NaN,         0, NaN, Cell("Retired Hurt"),
         NaN, NaN, NaN, NaN),
  CsvRow(Cell("T2"), Cell("B1"), Cell("ROB"), 0, NaN, Cell("Caught"),
         NaN, NaN, Cell(0), Cell(70)),
  CsvRow(Cell("T1"), Cell("B2"), Cell("LFM"), 6, NaN, Cell("Bowled"),
         Cell(175), Cell(175), Cell(5), Cell(60)),
  CsvRow(Cell("T2"), Cell("B2"), Cell("XX"),  1, NaN, NaN,
         Cell(120), NaN, Cell(15), NaN)
>>

ScenarioRows == {1, 2, 3}

RECURSIVE Pick(_, _)
\* The rows of SampleCsv whose positions are in S, in file order.
Pick(S, k) ==
  IF k > Len(SampleCsv) THEN <<>>
  ELSE IF k \in S THEN <<SampleCsv[k]>> \o Pick(S, k + 1)
  ELSE Pick(S, k + 1)

\* The datasets a session may load: any MaxRows-or-fewer rows of the sample
\* table, and the end-to-end scenario.
Datasets ==
  {Pick(S, 1) : S \in {T \in SUBSET (1..Len(SampleCsv)) : Cardinality(T) <= MaxRows}}
  \cup {Pick(ScenarioRows, 1)}

Assets == {"wagon_background.png", "beehive_background.jpg"}

\* ---------------------------------------------------------- sidebar widgets

\* The order sorted() gives the names of the sample table.
NameOrder == <<"B1", "B2", "T1", "T2">>

sorted(S) == SelectSeq(NameOrder, LAMBDA n : n \in S)

Range(s) == {s[k] : k \in 1..Len(s)}

teams ==
  sorted({data[i].BattingTeam[1] : i \in {j \in 1..Len(data) : notna(data[j].BattingTeam)}})

batters ==
  sorted({data[i].Batter[1] : i \in {j \in 1..Len(data) : notna(data[j].Batter)}})

BowlingOptions == {"Spin", "Pace"}

RunOptions == {1, 2, 3, 4, 5, 6}

default_teams == Range(teams)

\* default=batters[:1]
default_batters == Range(SubSeq(batters, 1, Min(1, Len(batters))))

default_bowling == {"Spin", "Pace"}

default_runs == {1, 2, 3, 4, 5, 6}

\* A click on an option of a multiselect ticks or unticks it.
Toggle(S, v) == IF v \in S THEN S \ {v} ELSE S \cup {v}

\* ------------------------------------------------------------ apply filters

\* Mutant: a run filters what the run before it left.
DataCopyOfFiltered == filtered

\* data.copy(): every row of the loaded table.
DataCopy == [i \in 1..Len(data) |-> i]

\* Mutant: an empty selection is applied like any other and admits nothing.
ApplyFiltersUnguarded(start, st, sb, sbw) ==
  SelectSeq(start, LAMBDA i : /\ isin(data[i].BattingTeam, st)
                              /\ isin(data[i].Batter, sb)
                              /\ isin(data[i].BowlingType, sbw))

ApplyFilters(start, st, sb, sbw) ==
  LET f1 == IF st # {}
            THEN SelectSeq(start, LAMBDA i : isin(data[i].BattingTeam, st))
            ELSE start
      f2 == IF sb # {}
            THEN SelectSeq(f1, LAMBDA i : isin(data[i].Batter, sb))
            ELSE f1
      f3 == IF sbw # {}
            THEN SelectSeq(f2, LAMBDA i : isin(data[i].BowlingType, sbw))
            ELSE f2
  IN f3

\* ------------------------------------------------------------------ metrics

RECURSIVE SumRuns(_)
\* f['Runs'].sum()
SumRuns(f) == IF f = <<>> THEN 0 ELSE data[Head(f)].Runs + SumRuns(Tail(f))

\* Mutant: rows without a landing point are dropped before the sum.
TotalRunsOfLocated(f) == SumRuns(SelectSeq(f, LAMBDA i : notna(data[i].FieldX)))

TotalRuns(f) == SumRuns(f)

IsWide(i) == str_contains(astype_str(data[i].Extra), WidePattern)

BallsFaced(f) == Len(SelectSeq(f, LAMBDA i : ~IsWide(i)))

NotOutKinds == {"Retired Hurt", "Retired - Not Out", "Absent"}

IsDismissal(i) == notna(data[i].Wicket) /\ ~isin(data[i].Wicket, NotOutKinds)

DismissalsCount(f) == Len(SelectSeq(f, LAMBDA i : IsDismissal(i)))

\* round(n / d, 0) for n >= 0, d > 0: to the nearest integer, a tie to the
\* even one.
RoundHalfEven(n, d) ==
  LET q == n \div d
      r == n % d
  IN IF 2 * r < d THEN q
     ELSE IF 2 * r > d THEN q + 1
     ELSE IF q % 2 = 0 THEN q ELSE q + 1

\* The text shown in place of an average when nobody was dismissed.
InfiniteSentinel == [sentinel |-> TRUE, hundredths |-> 0]

Number(h) == [sentinel |-> FALSE, hundredths |-> h]

\* Mutant: the average falls back to 0 like the other two metrics.
BattingAverageZero(total, outs) ==
  IF outs > 0 THEN Number(RoundHalfEven(100 * total, outs)) ELSE Number(0)

\* round(total_runs / dismissals_count, 2), in hundredths
BattingAverage(total, outs) ==
  IF outs > 0 THEN Number(RoundHalfEven(100 * total, outs))
  ELSE InfiniteSentinel

\* round((total_runs / balls_faced) * 100, 2), in hundredths
StrikeRate(total, balls) ==
  IF balls > 0 THEN RoundHalfEven(100 * 100 * total, balls) ELSE 0

BoundaryValues == {4, 6}

\* Mutant: the boundary runs are taken from the whole table.
BoundaryRunsOfData(f) ==
  SumRuns(SelectSeq(DataCopy, LAMBDA i : data[i].Runs \in BoundaryValues))

BoundaryRuns(f) == SumRuns(SelectSeq(f, LAMBDA i : data[i].Runs \in BoundaryValues))

\* round((boundary_runs / total_runs) * 100, 2), in hundredths
BoundaryPercentage(f, total) ==
  IF total > 0 THEN RoundHalfEven(100 * 100 * BoundaryRuns(f), total) ELSE 0

\* ------------------------------------------------------------------- charts

\* Image.open(name) succeeds when the file is there and raises otherwise.
ImageOpen(name) == name \in assets

\* A section that writes its placeholder text instead of a chart.
NoChart == [drawn |-> FALSE, background |-> FALSE, traces |-> <<>>]

Chart(bg, tr) == [drawn |-> TRUE, background |-> bg, traces |-> tr]

center_x == 175

center_y == 175

run_colors ==
  1 :> "#00FFFF" @@ 2 :> "#0057FF" @@ 3 :> "#FF00FF" @@
  4 :> "#00C800" @@ 5 :> "#FFA500" @@ 6 :> "#FF0000"

\* run_colors.get(run_val, "grey")
ColorOf(run_val) ==
  IF run_val \in DOMAIN run_colors THEN run_colors[run_val] ELSE "grey"

\* Mutant: an empty runs-to-display selection means no restriction.
WagonRowsEmptyIsAll(f, sr) ==
  SelectSeq(f, LAMBDA i : /\ (sr = {} \/ data[i].Runs \in sr)
                          /\ data[i].Runs > 0
                          /\ notna(data[i].FieldX)
                          /\ notna(data[i].FieldY))

WagonRows(f, sr) ==
  SelectSeq(f, LAMBDA i : /\ data[i].Runs \in sr
                          /\ data[i].Runs > 0
                          /\ notna(data[i].FieldX)
                          /\ notna(data[i].FieldY))

\* The line from the origin to the centred, y-flipped landing point.
Trajectory(i) ==
  [x     |-> data[i].FieldX[1] - center_x,
   y     |-> center_y - data[i].FieldY[1],
   color |-> ColorOf(data[i].Runs)]

\* The background is added inside try/except: a missing file is passed over.
WagonChart(w) ==
  IF Len(w) > 0
  THEN Chart(ImageOpen("wagon_background.png"), [k \in 1..Len(w) |-> Trajectory(w[k])])
  ELSE NoChart

DismissalRows(f) == SelectSeq(f, LAMBDA i : notna(data[i].Wicket))

\* dismissals['Wicket'].value_counts()
ValueCounts(d) ==
  [label \in {data[d[k]].Wicket[1] : k \in 1..Len(d)} |->
     Cardinality({k \in 1..Len(d) : data[d[k]].Wicket[1] = label})]

PieChart(d) == IF Len(d) > 0 THEN Chart(FALSE, ValueCounts(d)) ELSE NoChart

CaughtRows(f) ==
  SelectSeq(f, LAMBDA i : /\ data[i].Wicket = Cell("Caught")
                          /\ notna(data[i].FieldX)
                          /\ notna(data[i].FieldY))

\* Mutant: the catch map keeps the y axis of the data.
CatchPointUnflipped(i) == [x |-> data[i].FieldX[1] - 175, y |-> data[i].FieldY[1] - 175]

CatchPoint(i) == [x |-> data[i].FieldX[1] - 175, y |-> 175 - data[i].FieldY[1]]

CatchChart(c) ==
  IF Len(c) > 0
  THEN Chart(ImageOpen("wagon_background.png"), [k \in 1..Len(c) |-> CatchPoint(c[k])])
  ELSE NoChart

BeehiveRows(f) ==
  SelectSeq(f, LAMBDA i : notna(data[i].ArrivalLine) /\ notna(data[i].ArrivalHeight))

ImpactPoint(i) == [x |-> data[i].ArrivalLine[1], y |-> data[i].ArrivalHeight[1]]

ImpactSeries(rows) == [k \in 1..Len(rows) |-> ImpactPoint(rows[k])]

\* The three series: 4 Runs, 6 Runs, Dismissal.
BeehiveTraces(b) ==
  <<ImpactSeries(SelectSeq(b, LAMBDA i : data[i].Runs = 4)),
    ImpactSeries(SelectSeq(b, LAMBDA i : data[i].Runs = 6)),
    ImpactSeries(SelectSeq(b, LAMBDA i : notna(data[i].Wicket)))>>

\* The beehive opens its background outside any try: a missing file raises
\* and the script stops there.
BeehiveRaises(b) == Len(b) > 0 /\ ~ImageOpen("beehive_background.jpg")

BeehiveChart(b) ==
  IF Len(b) > 0 /\ ~BeehiveRaises(b) THEN Chart(TRUE, BeehiveTraces(b)) ELSE NoChart

\* ----------------------------------------------------------- one script run

\* One run of the script from the rows it starts with and the four widget
\* values, statement by statement: f, total, ... stand for the script's
\* variables of this run.
Script(start, st, sb, sbw, sr, f, total, balls, outs, average, rate, boundary, w, d, c, b, figs, raised) ==
  /\ f = ApplyFilters(start, st, sb, sbw)
  /\ total = TotalRuns(f)
  /\ balls = BallsFaced(f)
  /\ outs = DismissalsCount(f)
  /\ average = BattingAverage(total, outs)
  /\ rate = StrikeRate(total, balls)
  /\ boundary = BoundaryPercentage(f, total)
  /\ w = WagonRows(f, sr)
  /\ d = DismissalRows(f)
  /\ c = CaughtRows(f)
  /\ b = BeehiveRows(f)
  /\ figs = [wagon   |-> WagonChart(w),
             pie     |-> PieChart(d),
             catch   |-> CatchChart(c),
             beehive |-> BeehiveChart(b)]
  /\ raised = IF BeehiveRaises(b) THEN Cell("FileNotFoundError") ELSE NaN

Selection ==
  [teams |-> selected_teams, batters |-> selected_batters,
   bowling |-> selected_bowling, runs |-> selected_runs]

\* What the page shows now.
Outputs ==
  [filtered            |-> filtered,
   total_runs          |-> total_runs,
   balls_faced         |-> balls_faced,
   dismissals_count    |-> dismissals_count,
   batting_average     |-> batting_average,
   strike_rate         |-> strike_rate,
   boundary_percentage |-> boundary_percentage,
   wagon               |-> wagon,
   dismissals          |-> dismissals,
   caught              |-> caught,
   beehive_data        |-> beehive_data,
   charts              |-> charts,
   exception           |-> exception]

\* The first run: the table is loaded, the widgets hold their defaults.
Init ==
  /\ \E csv \in Datasets : data = load_data(csv)
  /\ assets \in SUBSET Assets
  /\ selected_teams = default_teams
  /\ selected_batters = default_batters
  /\ selected_bowling = default_bowling
  /\ selected_runs = default_runs
  /\ Script([i \in 1..Len(data) |-> i],
            selected_teams, selected_batters, selected_bowling, selected_runs,
            filtered, total_runs, balls_faced, dismissals_count,
            batting_average, strike_rate, boundary_percentage,
            wagon, dismissals, caught, beehive_data, charts, exception)
  /\ first_pass = [selection |-> Selection, outputs |-> Outputs]
  /\ reran = FALSE

\* A widget changed: the script runs again from the top with the new values.
Rerun(st, sb, sbw, sr) ==
  /\ selected_teams' = st
  /\ selected_batters' = sb
  /\ selected_bowling' = sbw
  /\ selected_runs' = sr
  /\ Script(DataCopy, st, sb, sbw, sr,
            filtered', total_runs', balls_faced', dismissals_count',
            batting_average', strike_rate', boundary_percentage',
            wagon', dismissals', caught', beehive_data', charts', exception')
  /\ reran' = TRUE
  /\ UNCHANGED <<data, assets, first_pass>>

ToggleTeam(t) ==
  Rerun(Toggle(selected_teams, t), selected_batters, selected_bowling, selected_runs)

ToggleBatter(b) ==
  Rerun(selected_teams, Toggle(selected_batters, b), selected_bowling, selected_runs)

ToggleBowling(k) ==
  Rerun(selected_teams, selected_batters, Toggle(selected_bowling, k), selected_runs)

ToggleRun(r) ==
  Rerun(selected_teams, selected_batters, selected_bowling, Toggle(selected_runs, r))

\* The clear-all control of the Runs to Display multiselect.
ClearRuns ==
  /\ selected_runs # {}
  /\ Rerun(selected_teams, selected_batters, selected_bowling, {})

Next ==
  \/ \E t \in Range(teams) : ToggleTeam(t)
  \/ \E b \in Range(batters) : ToggleBatter(b)
  \/ \E k \in BowlingOptions : ToggleBowling(k)
  \/ \E r \in RunOptions : r <= MaxRunToggle /\ ToggleRun(r)
  \/ ClearRuns

Spec == Init /\ [][Next]_vars

\* ================================================================== claims

Rows == 1..Len(data)

Shown == Range(filtered)

\* filtered lists rows of data in file order, none twice.
IsSubFrame(f) ==
  /\ \A k \in 1..Len(f) : f[k] \in Rows
  /\ \A j, k \in 1..Len(f) : j < k => f[j] < f[k]

\* A facet lets a cell through: nothing is selected, or the cell's value is.
FacetAdmits(sel, c) == sel = {} \/ (c # NaN /\ c[1] \in sel)

Admitted(i) ==
  /\ FacetAdmits(selected_teams, data[i].BattingTeam)
  /\ FacetAdmits(selected_batters, data[i].Batter)
  /\ FacetAdmits(selected_bowling, data[i].BowlingType)

RECURSIVE RunsOfFirst(_)
\* The runs of the first n rows shown, added up.
RunsOfFirst(n) == IF n = 0 THEN 0 ELSE data[filtered[n]].Runs + RunsOfFirst(n - 1)

RECURSIVE BoundaryRunsOfFirst(_)
BoundaryRunsOfFirst(n) ==
  IF n = 0 THEN 0
  ELSE (IF data[filtered[n]].Runs = 4 \/ data[filtered[n]].Runs = 6
        THEN data[filtered[n]].Runs ELSE 0) + BoundaryRunsOfFirst(n - 1)

\* h hundredths is num / den rounded to two decimals.
IsRounded(h, num, den) ==
  /\ 2 * (h * den - 100 * num) <= den
  /\ 2 * (100 * num - h * den) <= den

\* C1: the filtered subset is exactly the rows that every facet with a
\* non-empty selection admits (team, batter and bowling type together), in
\* file order; so it is a subset of the table, and the whole table when all
\* three selections are empty.
C1_FilterExact ==
  /\ IsSubFrame(filtered)
  /\ Shown = {i \in Rows : Admitted(i)}
  /\ (selected_teams = {} /\ selected_batters = {} /\ selected_bowling = {}
        => filtered = [i \in Rows |-> i])

\* Two facets are in force and between them keep some rows and drop others.
C1_Witness ==
  /\ reran
  /\ selected_teams # {} /\ selected_batters # {} /\ selected_bowling = {}
  /\ Shown # {} /\ Shown # Rows
  /\ \E i \in Rows \ Shown : FacetAdmits(selected_teams, data[i].BattingTeam)

\* C2: no metric divides by zero.  The average is the sentinel exactly when
\* nobody was dismissed and otherwise total runs over dismissals (to two
\* decimals); the strike rate is 0 when no ball was faced; the boundary
\* percentage is 0 when no run was scored.
C2_GuardedDivisions ==
  /\ batting_average.sentinel <=> dismissals_count = 0
  /\ dismissals_count > 0 =>
       IsRounded(batting_average.hundredths, total_runs, dismissals_count)
  /\ balls_faced = 0 => strike_rate = 0
  /\ total_runs = 0 => boundary_percentage = 0

\* Runs were scored, yet no ball was faced and nobody was out.
C2_Witness ==
  /\ Len(filtered) > 0 /\ total_runs > 0
  /\ balls_faced = 0 /\ dismissals_count = 0
  /\ batting_average = InfiniteSentinel /\ strike_rate = 0

\* C5: balls faced is the number of shown rows whose extra is not a wide in
\* any letter case, a row without an extra counting as a ball; total runs is
\* the sum over every shown row, the wides among them included.
C5_WidesAndRuns ==
  /\ balls_faced = Cardinality({k \in 1..Len(filtered) :
                                  data[filtered[k]].Extra \notin {Wide, wides}})
  /\ balls_faced >= Cardinality({k \in 1..Len(filtered) : data[filtered[k]].Extra = NaN})
  /\ total_runs = RunsOfFirst(Len(filtered))

\* A wide that brought runs is shown beside a ball without an extra.
C5_Witness ==
  /\ \E k \in 1..Len(filtered) :
       data[filtered[k]].Extra = wides /\ data[filtered[k]].Runs > 0
  /\ \E k \in 1..Len(filtered) : data[filtered[k]].Extra = NaN
  /\ balls_faced = 1
  /\ total_runs > 2

\* C6: when runs were scored, the boundary percentage is the runs from fours
\* and sixes over the total runs, times 100 (to two decimals), and lies in
\* [0, 100].
C6_BoundaryPercentageRange ==
  total_runs > 0 =>
    /\ 0 <= boundary_percentage /\ boundary_percentage <= 100 * 100
    /\ IsRounded(boundary_percentage, 100 * BoundaryRunsOfFirst(Len(filtered)), total_runs)

\* Some of the runs shown, not all, came from boundaries.
C6_Witness ==
  /\ total_runs > 0
  /\ 0 < boundary_percentage /\ boundary_percentage < 100 * 100

\* The table holds exactly the three records of the end-to-end scenario.
IsScenario ==
  /\ Len(data) = 3
  /\ data[1].Runs = 4 /\ data[1].Wicket = NaN
  /\ data[1].FieldX = Cell(200) /\ data[1].FieldY = Cell(150)
  /\ data[2].Runs = 6 /\ data[2].Wicket = NaN
  /\ data[2].FieldX = NaN /\ data[2].FieldY = NaN
  /\ data[3].Runs = 0 /\ data[3].Wicket = Cell("Caught")
  /\ data[3].FieldX = Cell(100) /\ data[3].FieldY = Cell(200)

\* All filters open, every run value selected for display.
ScenarioSelection ==
  /\ selected_teams = {} /\ selected_batters = {} /\ selected_bowling = {}
  /\ selected_runs = RunOptions

ScenarioMetrics ==
  /\ total_runs = 10
  /\ dismissals_count = 1
  /\ batting_average = Number(10 * 100)
  /\ charts.catch.traces = <<[x |-> -75, y |-> -25]>>

\* C3 as stated: in the scenario the trajectory series has 2 points, for the
\* runs-4 and the runs-6 record.
C3_AsStated ==
  IsScenario /\ ScenarioSelection =>
    /\ ScenarioMetrics
    /\ Len(charts.wagon.traces) = 2

\* C3, amended: in the scenario total runs is 10, dismissals 1, the average
\* 10.0, the catch map holds the one point (-75, -25), and the trajectory
\* series holds one point, (25, 25), for the runs-4 record: the runs-6 record
\* has no field coordinates.
C3_Scenario ==
  IsScenario /\ ScenarioSelection =>
    /\ ScenarioMetrics
    /\ wagon = <<1>>
    /\ charts.wagon.traces = <<[x |-> 25, y |-> 25, color |-> "#00C800"]>>

C3_Witness ==
  /\ IsScenario /\ ScenarioSelection /\ reran
  /\ Len(charts.wagon.traces) = 1 /\ Len(charts.catch.traces) = 1

\* C4: a missing background image never blocks a run: no error is raised and
\* every visualization that has data is drawn.
C4_MissingBackgroundHarmless ==
  /\ exception = NaN
  /\ Len(wagon) > 0 => charts.wagon.drawn
  /\ Len(caught) > 0 => charts.catch.drawn
  /\ Len(beehive_data) > 0 => charts.beehive.drawn

\* The page is what a run of the script on the loaded table with the
\* current widget values gives.
PageDetermined ==
  Script([i \in Rows |-> i],
         selected_teams, selected_batters, selected_bowling, selected_runs,
         filtered, total_runs, balls_faced, dismissals_count,
         batting_average, strike_rate, boundary_percentage,
         wagon, dismissals, caught, beehive_data, charts, exception)

\* C7: over any sequence of selection changes the loaded table, derived
\* Bowling Type column included, never changes, and what the page shows is
\* what a run on that table with the current selection gives, whatever was
\* selected before: coming back to the selection of the first run brings
\* back what the first run showed.
C7_StatelessPasses ==
  /\ [][data' = data]_vars
  /\ [](\A i \in Rows : data[i].BowlingType = map_bowling_type(data[i].BowlerType))
  /\ [](Selection = first_pass.selection => Outputs = first_pass.outputs)
  /\ []PageDetermined

\* After some reruns the selection is again that of the first run, which had
\* dropped some rows.
C7_Witness ==
  /\ reran
  /\ Selection = first_pass.selection
  /\ Shown # {} /\ Shown # Rows

LacksField(i) == data[i].FieldX = NaN \/ data[i].FieldY = NaN

LacksArrival(i) == data[i].ArrivalLine = NaN \/ data[i].ArrivalHeight = NaN

CountsAsOut(i) ==
  data[i].Wicket # NaN /\ data[i].Wicket \notin {Cell(kind) : kind \in NotOutKinds}

\* C8: a shown row that lacks a field coordinate is left out of the
\* trajectories and the catch map, one that lacks an arrival coordinate is
\* left out of the pitch-impact rows, and nothing else: the other
\* visualization takes the row whenever it has that one's fields, and total
\* runs, balls faced, dismissals and the dismissal breakdown count every shown
\* row, whatever coordinates it has.
C8_MissingFieldOnlyLocal ==
  /\ \A i \in Shown :
       /\ LacksField(i) => i \notin Range(wagon) /\ i \notin Range(caught)
       /\ LacksArrival(i) => i \notin Range(beehive_data)
       /\ ~LacksArrival(i) => i \in Range(beehive_data)
       /\ ~LacksField(i) /\ data[i].Runs > 0 /\ data[i].Runs \in selected_runs
            => i \in Range(wagon)
       /\ ~LacksField(i) /\ data[i].Wicket = Cell("Caught") => i \in Range(caught)
  /\ total_runs = RunsOfFirst(Len(filtered))
  /\ balls_faced = Cardinality({i \in Shown : data[i].Extra \notin {Wide, wides}})
  /\ dismissals_count = Cardinality({i \in Shown : CountsAsOut(i)})
  /\ Range(dismissals) = {i \in Shown : data[i].Wicket # NaN}
  /\ charts.pie.drawn =>
       \A label \in DOMAIN charts.pie.traces :
          charts.pie.traces[label] =
            Cardinality({i \in Shown : data[i].Wicket = Cell(label)})

\* A catch without field coordinates is counted as a dismissal and sits in
\* the pitch-impact rows, but not on the catch map; beside it a scoring shot
\* without arrival coordinates is drawn as a trajectory.
C8_Witness ==
  /\ \E i \in Shown :
       /\ data[i].Wicket = Cell("Caught") /\ LacksField(i)
       /\ i \in Range(beehive_data) /\ i \notin Range(caught)
       /\ charts.pie.drawn /\ charts.pie.traces["Caught"] >= 1
  /\ \E i \in Shown : LacksArrival(i) /\ i \in Range(wagon)
  /\ dismissals_count >= 1 /\ total_runs > 0

\* The bowler-style code of row i is not in the style table.
Unmapped(i) ==
  data[i].BowlerType = NaN \/ data[i].BowlerType[1] \notin DOMAIN bowling_type_mapping

\* C9: a row whose bowler-style code is not in the table is kept by the
\* bowling-type filter if and only if no bowling type is selected; while any
\* is selected, such a row is in no metric and no visualization.
C9_UnmappedStyle ==
  \A i \in Rows :
    Unmapped(i) =>
      /\ data[i].BowlingType = NaN
      /\ (i \in Shown => selected_bowling = {})
      /\ ((/\ selected_bowling = {}
           /\ FacetAdmits(selected_teams, data[i].BattingTeam)
           /\ FacetAdmits(selected_batters, data[i].Batter))
          => i \in Shown)
      /\ (selected_bowling # {} =>
           /\ i \notin Range(wagon) \cup Range(dismissals) \cup Range(caught)
                       \cup Range(beehive_data)
           /\ total_runs = RunsOfFirst(Len(filtered))
           /\ Len(filtered) <= Cardinality({j \in Rows : ~Unmapped(j)})
           /\ balls_faced <= Cardinality({j \in Rows : ~Unmapped(j)}))

\* With both Spin and Pace selected a row the other two facets admit is
\* dropped; with nothing selected it would be shown.
C9_Witness ==
  /\ selected_bowling = {"Spin", "Pace"}
  /\ \E i \in Rows \ Shown :
       /\ Unmapped(i) /\ data[i].Runs > 0
       /\ FacetAdmits(selected_teams, data[i].BattingTeam)
       /\ FacetAdmits(selected_batters, data[i].Batter)
  /\ Shown # {}

\* The trajectories are exactly the shown rows with runs > 0, runs in the
\* runs-to-display selection and both field coordinates.
WagonExact ==
  /\ IsSubFrame(wagon)
  /\ Range(wagon) = {i \in Shown : /\ data[i].Runs > 0
                                   /\ data[i].Runs \in selected_runs
                                   /\ ~LacksField(i)}
  /\ Len(charts.wagon.traces) = Len(wagon)
  /\ selected_runs = {} => wagon = <<>> /\ ~charts.wagon.drawn

\* A change of the runs-to-display selection alone changes nothing but the
\* trajectories.
OnlyWagonFollowsRuns ==
  (/\ selected_teams' = selected_teams
   /\ selected_batters' = selected_batters
   /\ selected_bowling' = selected_bowling)
  => /\ filtered' = filtered
     /\ total_runs' = total_runs
     /\ balls_faced' = balls_faced
     /\ dismissals_count' = dismissals_count
     /\ batting_average' = batting_average
     /\ strike_rate' = strike_rate
     /\ boundary_percentage' = boundary_percentage
     /\ dismissals' = dismissals
     /\ caught' = caught
     /\ beehive_data' = beehive_data
     /\ charts'.pie = charts.pie
     /\ charts'.catch = charts.catch
     /\ charts'.beehive = charts.beehive

\* C10: the runs-to-display selection restricts the trajectory series only:
\* that series is exactly the shown rows with runs > 0, runs selected and
\* both field coordinates, so it is empty when nothing is selected; the
\* filtered subset, the six metrics, the catch map and the pitch-impact
\* series are the same for any two runs-to-display selections.
C10_RunsSelectionOnlyWagon ==
  /\ []WagonExact
  /\ [][OnlyWagonFollowsRuns]_vars

\* Nothing is selected for display: no trajectory, though a shown row has a
\* scoring shot with field coordinates, and the metrics still count it.
C10_Witness ==
  /\ selected_runs = {}
  /\ wagon = <<>>
  /\ \E i \in Shown : data[i].Runs > 0 /\ ~LacksField(i)
  /\ total_runs > 0

====
